---- MODULE Spec2Model ----
(***************************************************************************)
(* Model of stg/_wrapper/downloadnet.py: the STG4000 controller and the    *)
(* device it drives.  The device is a test double holding per-channel      *)
(* electrical modes, per-channel staged waveforms and the trigger map.     *)
(* Every method is cut into steps at its `with self.interface()` blocks    *)
(* and at its device calls, so that sessions, call order and failures of   *)
(* single device calls are visible.                                        *)
(***************************************************************************)
EXTENDS Integers, Sequences, FiniteSets, TLC

\* Largest channel count a device of the model reports.
MaxChannels == 2
\* Longest channel / trigger list handed to an operation.
MaxList == 2

VARIABLES
    count,        \* device: number of analog channels it reports
    chanMode,     \* device: channel -> "current" | "voltage"
    staged,       \* device: channel -> <<amplitudes, durations>> staged
    trigMap,      \* device: [channelmap, syncoutmap, repeat]
    sessions,     \* number of communication sessions open
    pc,           \* position of the running method
    stack,        \* return labels of the calling methods
    args,         \* the arguments the public operation was called with
    frame,        \* local variables of the running methods
    calls,        \* device calls issued by the running public operation
    outcome,      \* "none" | "running" | "returned" | "ValueError" | "DeviceError"
    pre,          \* device state when the public operation was entered
    constructed   \* __init__ has completed

devVars == <<count, chanMode, staged, trigMap>>
vars == <<count, chanMode, staged, trigMap, sessions, pc, stack, args, frame,
          calls, outcome, pre, constructed>>

----------------------------------------------------------------------------
\* Pure helpers

Pow2(n) == 2 ^ n

Channels == 0 .. (count - 1)

SeqsUpTo(S, k) == UNION {[1 .. m -> S] : m \in 0 .. k}

\* [c for c in range(n)]
range(n) == [i \in 1 .. n |-> i - 1]

Elems(s) == {s[i] : i \in 1 .. Len(s)}

\* The channel lists and trigger lists a caller hands over: every list of
\* at most MaxList indices the device has, repeats and any order included.
ChannelLists == SeqsUpTo(Channels, MaxList)
TriggerLists == SeqsUpTo(Channels, MaxList)

RECURSIVE SumPow2(_)
SumPow2(S) ==
    IF S = {} THEN 0
    ELSE LET i == CHOOSE x \in S : TRUE IN Pow2(i) + SumPow2(S \ {i})

\* dll.bitmap: bit i is set iff i occurs in the list.
bitmap(indices) == SumPow2(Elems(indices))

\* Python int(): truncation toward zero of num / den.
int(num, den) ==
    IF num >= 0 THEN num \div den ELSE -((-num) \div den)

\* Physical inputs are fixed-point decimals with one digit below the
\* device unit: an amplitude x stands for x / AmpDen mA, a duration y for
\* y / DurDen ms.
AmpScale == 1000000
DurScale == 1000
AmpDen == 10 * AmpScale
DurDen == 10 * DurScale

\* int(a * 1000_000) and int(s * 1000) of download
toDeviceAmplitude(x) == int(x, AmpDen \div AmpScale)
toDeviceDuration(y) == int(y, DurDen \div DurScale)

ConvertAmplitudes(amplitudes_in_mA) ==
    [i \in 1 .. Len(amplitudes_in_mA) |-> toDeviceAmplitude(amplitudes_in_mA[i])]
ConvertDurations(durations_in_ms) ==
    [i \in 1 .. Len(durations_in_ms) |-> toDeviceDuration(durations_in_ms[i])]

\* The waveforms a caller hands to download, in fixed-point mA and ms:
\* a biphasic pulse (1.0 mA, -0.5 mA, 0 mA for 0.1 ms, 0.1 ms, 0.488 ms),
\* values that are no whole multiple of the device unit, the empty
\* waveform and two pairs of unequal length.
PhysicalWaveforms ==
    { [a |-> <<10000000, -5000000, 0>>, d |-> <<1000, 1000, 4880>>],
      [a |-> <<7, -15>>, d |-> <<7, 15>>],
      [a |-> <<>>, d |-> <<>>],
      [a |-> <<10000000, -5000000>>, d |-> <<1000>>],
      [a |-> <<>>, d |-> <<4880>>] }

\* The same waveforms in device units, as _download takes them.
DeviceWaveforms ==
    { [a |-> ConvertAmplitudes(w.a), d |-> ConvertDurations(w.d)] :
        w \in PhysicalWaveforms }

Modes == {"current", "voltage", "other"}

NoArgs == [op |-> "none", chans |-> <<>>, a |-> <<>>, d |-> <<>>,
           mode |-> "", triggers |-> <<>>]

NoFrame == [channel_index |-> <<>>, amplitudes |-> <<>>, durations |-> <<>>,
            mode |-> "", setting |-> "", triggerIndex |-> <<>>,
            idx |-> 0, out |-> 0]

Snapshot == [mode |-> chanMode, staged |-> staged, trig |-> trigMap]

NoWaveform == << <<>>, <<>> >>

DeviceCall(name, chan, payload, tag, mask, ok) ==
    [call |-> name, chan |-> chan, payload |-> payload, tag |-> tag,
     mask |-> mask, ok |-> ok, depth |-> sessions]

----------------------------------------------------------------------------
\* Control flow shared by all methods

\* A public operation is entered (the controller is idle: pc = "idle").
Enter(a, f, label, callers) ==
    /\ args' = a
    /\ frame' = f
    /\ pc' = label
    /\ stack' = callers
    /\ calls' = <<>>
    /\ outcome' = "running"
    /\ pre' = Snapshot

\* One method calls another: control moves to the callee's first step and
\* comes back to `back`.
Invoke(callee, back) ==
    /\ pc' = callee
    /\ stack' = <<back>> \o stack
    /\ outcome' = outcome

\* A method returns to its caller, or the public operation returns.
Return ==
    IF stack = <<>>
    THEN pc' = "done" /\ outcome' = "returned" /\ stack' = stack
    ELSE pc' = Head(stack) /\ stack' = Tail(stack) /\ outcome' = outcome

\* An exception leaves the `with` blocks that enclose the raising
\* statement (each releases its session) and every frame, and reaches the
\* caller of the public operation.
Raise(e, withs) ==
    /\ pc' = "done"
    /\ outcome' = e
    /\ stack' = <<>>
    /\ sessions' = sessions - withs

\* `with self.interface() as interface:` entered / left
WithEnter == sessions' = sessions + 1
WithExit == sessions' = sessions - 1

\* The device call is recorded as issued, whether it succeeds or not.
Issue(c) == calls' = Append(calls, c)

----------------------------------------------------------------------------
\* channel_count

channel_count_begin ==
    /\ pc = "cc_begin"
    /\ WithEnter
    /\ pc' = "cc_get"
    /\ UNCHANGED <<devVars, stack, args, frame, calls, outcome, pre, constructed>>

channel_count_get(ok) ==
    /\ pc = "cc_get"
    /\ Issue(DeviceCall("GetNumberOfAnalogChannels", -1, <<>>, "", 0, ok))
    /\ IF ok
       THEN /\ frame' = [frame EXCEPT !.out = count]
            /\ pc' = "cc_end"
            /\ UNCHANGED <<sessions, stack, outcome>>
       ELSE /\ Raise("DeviceError", 1)
            /\ UNCHANGED frame
    /\ UNCHANGED <<devVars, args, pre, constructed>>

channel_count_end ==
    /\ pc = "cc_end"
    /\ WithExit
    /\ Return
    /\ UNCHANGED <<devVars, args, frame, calls, pre, constructed>>

----------------------------------------------------------------------------
\* set_current_mode, set_voltage_mode

ModeSetCall(setting) ==
    IF setting = "current" THEN "SetCurrentMode" ELSE "SetVoltageMode"

set_current_mode ==
    /\ pc = "idle"
    /\ constructed
    /\ \E channel_index \in ChannelLists : Enter([NoArgs EXCEPT !.op = "set_current_mode", !.chans = channel_index],
             [NoFrame EXCEPT !.channel_index = channel_index,
                             !.setting = "current"],
             "sm_begin", <<>>)
    /\ UNCHANGED <<devVars, sessions, constructed>>

set_voltage_mode ==
    /\ pc = "idle"
    /\ constructed
    /\ \E channel_index \in ChannelLists : Enter([NoArgs EXCEPT !.op = "set_voltage_mode", !.chans = channel_index],
             [NoFrame EXCEPT !.channel_index = channel_index,
                             !.setting = "voltage"],
             "sm_begin", <<>>)
    /\ UNCHANGED <<devVars, sessions, constructed>>

\* Mutant: the channel list is ignored and every channel is switched.
set_mode_begin_always_all ==
    /\ pc = "sm_begin"
    /\ WithEnter
    /\ pc' = "sm_all"
    /\ frame' = [frame EXCEPT !.idx = 1]
    /\ UNCHANGED <<devVars, stack, args, calls, outcome, pre, constructed>>

\* if channel_index == []: with ...  else: with ...
set_mode_begin ==
    /\ pc = "sm_begin"
    /\ WithEnter
    /\ pc' = IF frame.channel_index = <<>> THEN "sm_all" ELSE "sm_each"
    /\ frame' = [frame EXCEPT !.idx = 1]
    /\ UNCHANGED <<devVars, stack, args, calls, outcome, pre, constructed>>

\* interface.SetCurrentMode() / interface.SetVoltageMode(): all channels
set_mode_all(ok) ==
    /\ pc = "sm_all"
    /\ Issue(DeviceCall(ModeSetCall(frame.setting), -1, <<>>, "", 0, ok))
    /\ IF ok
       THEN /\ chanMode' = [c \in Channels |-> frame.setting]
            /\ pc' = "sm_end"
            /\ UNCHANGED <<sessions, stack, outcome>>
       ELSE /\ Raise("DeviceError", 1)
            /\ UNCHANGED chanMode
    /\ UNCHANGED <<count, staged, trigMap, args, frame, pre, constructed>>

\* Mutant: a failed mode-set is swallowed and the loop goes on.
set_mode_each_swallow(ok) ==
    /\ pc = "sm_each"
    /\ LET chan == frame.channel_index[frame.idx] IN
       /\ Issue(DeviceCall(ModeSetCall(frame.setting), chan, <<>>, "", 0, ok))
       /\ chanMode' = IF ok THEN [chanMode EXCEPT ![chan] = frame.setting]
                      ELSE chanMode
       /\ frame' = [frame EXCEPT !.idx = frame.idx + 1]
       /\ pc' = IF frame.idx = Len(frame.channel_index)
                THEN "sm_end" ELSE "sm_each"
       /\ UNCHANGED <<sessions, stack, outcome>>
    /\ UNCHANGED <<count, staged, trigMap, args, pre, constructed>>

\* for chan in channel_index: interface.SetCurrentMode(System.UInt32(chan))
set_mode_each(ok) ==
    /\ pc = "sm_each"
    /\ LET chan == frame.channel_index[frame.idx] IN
       /\ Issue(DeviceCall(ModeSetCall(frame.setting), chan, <<>>, "", 0, ok))
       /\ IF ok
          THEN /\ chanMode' = [chanMode EXCEPT ![chan] = frame.setting]
               /\ frame' = [frame EXCEPT !.idx = frame.idx + 1]
               /\ pc' = IF frame.idx = Len(frame.channel_index)
                        THEN "sm_end" ELSE "sm_each"
               /\ UNCHANGED <<sessions, stack, outcome>>
          ELSE /\ Raise("DeviceError", 1)
               /\ UNCHANGED <<chanMode, frame>>
    /\ UNCHANGED <<count, staged, trigMap, args, pre, constructed>>

set_mode_end ==
    /\ pc = "sm_end"
    /\ WithExit
    /\ Return
    /\ UNCHANGED <<devVars, args, frame, calls, pre, constructed>>

----------------------------------------------------------------------------
\* stop_stimulation, start_stimulation

\* Mutant: the identity test of start_stimulation, used for stop as well.
EqualsEmptyList_identity(triggerIndex) == FALSE

\* `triggerIndex == []`: the list is empty
EqualsEmptyList(triggerIndex) == triggerIndex = <<>>

\* `triggerIndex is []`: the list is the very object the literal [] has
\* just created, which no argument is
IsEmptyListLiteral(triggerIndex) == FALSE

stop_stimulation ==
    /\ pc = "idle"
    /\ constructed
    /\ \E triggerIndex \in TriggerLists : Enter([NoArgs EXCEPT !.op = "stop_stimulation", !.triggers = triggerIndex],
             [NoFrame EXCEPT !.triggerIndex = triggerIndex],
             "stop_begin", <<>>)
    /\ UNCHANGED <<devVars, sessions, constructed>>

\* Mutant: the channel count is read inside the method's own session.
stop_stimulation_begin_in_session ==
    /\ pc = "stop_begin"
    /\ IF EqualsEmptyList(frame.triggerIndex)
       THEN Invoke("cc_begin", "stop_send") /\ WithEnter
       ELSE pc' = "stop_with" /\ UNCHANGED <<stack, outcome, sessions>>
    /\ UNCHANGED <<devVars, args, frame, calls, pre, constructed>>

\* if triggerIndex == []: ... self.channel_count
stop_stimulation_begin ==
    /\ pc = "stop_begin"
    /\ IF EqualsEmptyList(frame.triggerIndex)
       THEN Invoke("cc_begin", "stop_default")
       ELSE pc' = "stop_with" /\ UNCHANGED <<stack, outcome>>
    /\ UNCHANGED <<devVars, sessions, args, frame, calls, pre, constructed>>

\* triggerIndex = [c for c in range(self.channel_count)]; with ...
stop_stimulation_with ==
    /\ pc \in {"stop_default", "stop_with"}
    /\ frame' = IF pc = "stop_default"
                THEN [frame EXCEPT !.triggerIndex = range(frame.out)]
                ELSE frame
    /\ WithEnter
    /\ pc' = "stop_send"
    /\ UNCHANGED <<devVars, stack, args, calls, outcome, pre, constructed>>

\* interface.SendStop(System.UInt32(bitmap(triggerIndex)))
stop_stimulation_send(ok) ==
    /\ pc = "stop_send"
    /\ Issue(DeviceCall("SendStop", -1, <<>>, "", bitmap(frame.triggerIndex), ok))
    /\ IF ok
       THEN pc' = "stop_end" /\ UNCHANGED <<sessions, stack, outcome>>
       ELSE Raise("DeviceError", 1)
    /\ UNCHANGED <<devVars, args, frame, pre, constructed>>

stop_stimulation_end ==
    /\ pc = "stop_end"
    /\ WithExit
    /\ Return
    /\ UNCHANGED <<devVars, args, frame, calls, pre, constructed>>

start_stimulation ==
    /\ pc = "idle"
    /\ constructed
    /\ \E triggerIndex \in TriggerLists : Enter([NoArgs EXCEPT !.op = "start_stimulation", !.triggers = triggerIndex],
             [NoFrame EXCEPT !.triggerIndex = triggerIndex],
             "start_begin", <<>>)
    /\ UNCHANGED <<devVars, sessions, constructed>>

\* if triggerIndex is []: ... self.channel_count
start_stimulation_begin ==
    /\ pc = "start_begin"
    /\ IF IsEmptyListLiteral(frame.triggerIndex)
       THEN Invoke("cc_begin", "start_default")
       ELSE pc' = "start_with" /\ UNCHANGED <<stack, outcome>>
    /\ UNCHANGED <<devVars, sessions, args, frame, calls, pre, constructed>>

start_stimulation_with ==
    /\ pc \in {"start_default", "start_with"}
    /\ frame' = IF pc = "start_default"
                THEN [frame EXCEPT !.triggerIndex = range(frame.out)]
                ELSE frame
    /\ WithEnter
    /\ pc' = "start_send"
    /\ UNCHANGED <<devVars, stack, args, calls, outcome, pre, constructed>>

\* interface.SendStart(System.UInt32(bitmap(triggerIndex)))
start_stimulation_send(ok) ==
    /\ pc = "start_send"
    /\ Issue(DeviceCall("SendStart", -1, <<>>, "", bitmap(frame.triggerIndex), ok))
    /\ IF ok
       THEN pc' = "start_end" /\ UNCHANGED <<sessions, stack, outcome>>
       ELSE Raise("DeviceError", 1)
    /\ UNCHANGED <<devVars, args, frame, pre, constructed>>

start_stimulation_end ==
    /\ pc = "start_end"
    /\ WithExit
    /\ Return
    /\ UNCHANGED <<devVars, args, frame, calls, pre, constructed>>

----------------------------------------------------------------------------
\* diagonalize_triggermap, __init__

\* Mutant: the masks are shifted by one channel.
diagonal_shifted(n) ==
    [channelmap |-> [i \in 1 .. n |-> Pow2(i)],
     syncoutmap |-> [i \in 1 .. n |-> Pow2(i)],
     repeat     |-> [i \in 1 .. n |-> 1]]

\* The three lists the loop over range(0, channel_count) builds.
diagonal(n) ==
    [channelmap |-> [i \in 1 .. n |-> Pow2(i - 1)],
     syncoutmap |-> [i \in 1 .. n |-> Pow2(i - 1)],
     repeat     |-> [i \in 1 .. n |-> 1]]

diagonalize_triggermap ==
    /\ pc = "idle"
    /\ constructed
    /\ Enter([NoArgs EXCEPT !.op = "diagonalize_triggermap"], NoFrame,
             "diag_begin", <<>>)
    /\ UNCHANGED <<devVars, sessions, constructed>>

\* range(0, self.channel_count)
diagonalize_triggermap_begin ==
    /\ pc = "diag_begin"
    /\ Invoke("cc_begin", "diag_with")
    /\ UNCHANGED <<devVars, sessions, args, frame, calls, pre, constructed>>

diagonalize_triggermap_with ==
    /\ pc = "diag_with"
    /\ WithEnter
    /\ pc' = "diag_setup"
    /\ UNCHANGED <<devVars, stack, args, frame, calls, outcome, pre, constructed>>

\* interface.SetupTrigger(0, channelmap, syncoutmap, repeat)
diagonalize_triggermap_setup(ok) ==
    /\ pc = "diag_setup"
    /\ LET m == diagonal(frame.out) IN
       /\ Issue(DeviceCall("SetupTrigger", 0,
                           <<m.channelmap, m.syncoutmap, m.repeat>>, "", 0, ok))
       /\ IF ok
          THEN /\ trigMap' = m
               /\ pc' = "diag_end"
               /\ UNCHANGED <<sessions, stack, outcome>>
          ELSE /\ Raise("DeviceError", 1)
               /\ UNCHANGED trigMap
    /\ UNCHANGED <<count, chanMode, staged, args, frame, pre, constructed>>

diagonalize_triggermap_end ==
    /\ pc = "diag_end"
    /\ WithExit
    /\ Return
    /\ UNCHANGED <<devVars, args, frame, calls, pre, constructed>>

\* __init__: select the device, then self.diagonalize_triggermap()
__init__ ==
    /\ pc = "idle"
    /\ ~constructed
    /\ Enter([NoArgs EXCEPT !.op = "__init__"], NoFrame,
             "diag_begin", <<"init_end">>)
    /\ UNCHANGED <<devVars, sessions, constructed>>

__init___end ==
    /\ pc = "init_end"
    /\ constructed' = TRUE
    /\ Return
    /\ UNCHANGED <<devVars, sessions, args, frame, calls, pre>>

----------------------------------------------------------------------------
\* download, _download

ModeTag(mode) == IF mode = "current" THEN "CURRENT" ELSE "VOLTAGE"

\* download: converts the units and hands [channel_index] to _download
download ==
    /\ pc = "idle"
    /\ constructed
    /\ \E channel_index \in Channels, w \in PhysicalWaveforms :
          Enter([NoArgs EXCEPT !.op = "download", !.chans = <<channel_index>>,
                               !.a = w.a, !.d = w.d, !.mode = "current"],
                [NoFrame EXCEPT !.channel_index = <<channel_index>>,
                                !.amplitudes = ConvertAmplitudes(w.a),
                                !.durations = ConvertDurations(w.d),
                                !.mode = "current"],
                "dl_begin", <<>>)
    /\ UNCHANGED <<devVars, sessions, constructed>>

_download ==
    /\ pc = "idle"
    /\ constructed
    /\ \E channel_index \in ChannelLists, w \in DeviceWaveforms, mode \in Modes :
          Enter([NoArgs EXCEPT !.op = "_download", !.chans = channel_index,
                               !.a = w.a, !.d = w.d, !.mode = mode],
                [NoFrame EXCEPT !.channel_index = channel_index,
                                !.amplitudes = w.a,
                                !.durations = w.d,
                                !.mode = mode],
                "dl_begin", <<>>)
    /\ UNCHANGED <<devVars, sessions, constructed>>

\* Mutant: only a surplus of amplitudes is noticed.
LengthsDiffer_one_sided(amplitudes, durations) == Len(amplitudes) > Len(durations)

\* if len(amplitudes) != len(durations): raise ValueError
LengthsDiffer(amplitudes, durations) == Len(amplitudes) # Len(durations)

\* Mutant: the voltage branch calls set_current_mode as well.
_download_begin_sets_current ==
    /\ pc = "dl_begin"
    /\ IF LengthsDiffer(frame.amplitudes, frame.durations)
       THEN /\ Raise("ValueError", 0)
            /\ UNCHANGED frame
       ELSE /\ IF frame.mode \in {"current", "voltage"}
               THEN /\ Invoke("sm_begin", "dl_with")
                    /\ frame' = [frame EXCEPT !.setting = "current"]
               ELSE /\ Return
                    /\ UNCHANGED frame
            /\ UNCHANGED sessions
    /\ UNCHANGED <<devVars, args, calls, pre, constructed>>

\* The length check, then the branch on mode and the call of
\* set_current_mode / set_voltage_mode.  System.Int32 and System.UInt64
\* leave the values of the model, all within their ranges, as they are.
_download_begin ==
    /\ pc = "dl_begin"
    /\ IF LengthsDiffer(frame.amplitudes, frame.durations)
       THEN /\ Raise("ValueError", 0)
            /\ UNCHANGED frame
       ELSE /\ IF frame.mode \in {"current", "voltage"}
               THEN /\ Invoke("sm_begin", "dl_with")
                    /\ frame' = [frame EXCEPT !.setting = frame.mode]
               ELSE /\ Return
                    /\ UNCHANGED frame
            /\ UNCHANGED sessions
    /\ UNCHANGED <<devVars, args, calls, pre, constructed>>

_download_with ==
    /\ pc = "dl_with"
    /\ WithEnter
    /\ pc' = IF frame.channel_index = <<>> THEN "dl_end" ELSE "dl_send"
    /\ frame' = [frame EXCEPT !.idx = 1]
    /\ UNCHANGED <<devVars, stack, args, calls, outcome, pre, constructed>>

\* Mutant: the data sent is added to what is staged.
PrepareAndSendData_append(old, amplitudes, durations) ==
    <<old[1] \o amplitudes, old[2] \o durations>>

\* What PrepareAndSendData leaves staged on the channel: the data sent,
\* whatever was staged before.
PrepareAndSendData(old, amplitudes, durations) == <<amplitudes, durations>>

\* for chan in channel_index: interface.PrepareAndSendData(chan, ...)
_download_send(ok) ==
    /\ pc = "dl_send"
    /\ LET chan == frame.channel_index[frame.idx] IN
       /\ Issue(DeviceCall("PrepareAndSendData", chan,
                           <<frame.amplitudes, frame.durations>>,
                           ModeTag(frame.mode), 0, ok))
       /\ IF ok
          THEN /\ staged' = [staged EXCEPT ![chan] =
                    PrepareAndSendData(staged[chan], frame.amplitudes,
                                       frame.durations)]
               /\ frame' = [frame EXCEPT !.idx = frame.idx + 1]
               /\ pc' = IF frame.idx = Len(frame.channel_index)
                        THEN "dl_end" ELSE "dl_send"
               /\ UNCHANGED <<sessions, stack, outcome>>
          ELSE /\ Raise("DeviceError", 1)
               /\ UNCHANGED <<staged, frame>>
    /\ UNCHANGED <<count, chanMode, trigMap, args, pre, constructed>>

_download_end ==
    /\ pc = "dl_end"
    /\ WithExit
    /\ Return
    /\ UNCHANGED <<devVars, args, frame, calls, pre, constructed>>

----------------------------------------------------------------------------
\* The caller has the result (a return or an exception) and may call again.
Complete ==
    /\ pc = "done"
    /\ pc' = "idle"
    /\ args' = NoArgs
    /\ frame' = NoFrame
    /\ calls' = <<>>
    /\ outcome' = "none"
    /\ pre' = Snapshot
    /\ UNCHANGED <<devVars, sessions, stack, constructed>>

----------------------------------------------------------------------------
\* A device as the controller may find it: any channel count up to
\* MaxChannels, every channel in one of the two modes, nothing staged, and a
\* trigger map that is either the factory one or left by another program.
TriggerMapsFound(n) ==
    { diagonal(n),
      [channelmap |-> [i \in 1 .. n |-> 1],
       syncoutmap |-> [i \in 1 .. n |-> 0],
       repeat     |-> [i \in 1 .. n |-> 2]] }

Init ==
    /\ count \in 1 .. MaxChannels
    /\ chanMode \in [0 .. (count - 1) -> {"current", "voltage"}]
    /\ staged = [c \in 0 .. (count - 1) |-> NoWaveform]
    /\ trigMap \in TriggerMapsFound(count)
    /\ sessions = 0
    /\ pc = "idle"
    /\ stack = <<>>
    /\ args = NoArgs
    /\ frame = NoFrame
    /\ calls = <<>>
    /\ outcome = "none"
    /\ pre = [mode |-> chanMode, staged |-> staged, trig |-> trigMap]
    /\ constructed = FALSE

Next ==
    \/ __init__
    \/ __init___end
    \/ set_current_mode
    \/ set_voltage_mode
    \/ set_mode_begin
    \/ \E ok \in BOOLEAN : set_mode_all(ok)
    \/ \E ok \in BOOLEAN : set_mode_each(ok)
    \/ set_mode_end
    \/ channel_count_begin
    \/ \E ok \in BOOLEAN : channel_count_get(ok)
    \/ channel_count_end
    \/ stop_stimulation
    \/ stop_stimulation_begin
    \/ stop_stimulation_with
    \/ \E ok \in BOOLEAN : stop_stimulation_send(ok)
    \/ stop_stimulation_end
    \/ start_stimulation
    \/ start_stimulation_begin
    \/ start_stimulation_with
    \/ \E ok \in BOOLEAN : start_stimulation_send(ok)
    \/ start_stimulation_end
    \/ diagonalize_triggermap
    \/ diagonalize_triggermap_begin
    \/ diagonalize_triggermap_with
    \/ \E ok \in BOOLEAN : diagonalize_triggermap_setup(ok)
    \/ diagonalize_triggermap_end
    \/ download
    \/ _download
    \/ _download_begin
    \/ _download_with
    \/ \E ok \in BOOLEAN : _download_send(ok)
    \/ _download_end
    \/ Complete

Spec == Init /\ [][Next]_vars

----------------------------------------------------------------------------
\* Vocabulary of the properties

Finished == pc = "done"
IsDownload == args.op \in {"download", "_download"}
LengthsMatch == Len(args.a) = Len(args.d)
Named == Elems(args.chans)

CallsOf(names) == {i \in 1 .. Len(calls) : calls[i].call \in names}
ModeSets == CallsOf({"SetCurrentMode", "SetVoltageMode"})
Transfers == CallsOf({"PrepareAndSendData"})
ModeSetsOn(c) == {i \in ModeSets : calls[i].chan = c}
TransfersOn(c) == {i \in Transfers : calls[i].chan = c}

Occurrences(list, c) == Cardinality({k \in 1 .. Len(list) : list[k] = c})

\* round() of the unit converter: nearest integer to num / den, ties to the even one.
round(num, den) ==
    LET q == num \div den
        r == num % den
    IN  IF 2 * r < den THEN q
        ELSE IF 2 * r > den THEN q + 1
        ELSE IF q % 2 = 0 THEN q ELSE q + 1

Bit(mask, i) == (mask \div Pow2(i)) % 2 = 1

DeviceAsBefore ==
    /\ chanMode = pre.mode
    /\ staged = pre.staged
    /\ trigMap = pre.trig

\* The data a download hands to the device, in device units.
DeviceData ==
    IF args.op = "download"
    THEN <<ConvertAmplitudes(args.a), ConvertDurations(args.d)>>
    ELSE <<args.a, args.d>>

ModeSetName(mode) ==
    IF mode = "current" THEN "SetCurrentMode" ELSE "SetVoltageMode"
TagMode(tag) == IF tag = "CURRENT" THEN "current" ELSE "voltage"

----------------------------------------------------------------------------
\* C1: a download whose amplitude and duration sequences differ in length
\* ends in the validation error, whatever the channels and the mode, with
\* no device call issued, no session opened and the device state (modes,
\* staged waveforms, trigger map) as it was; and the validation error is
\* never raised after a device call.
C1_MismatchRejectedBeforeAnyDeviceCall ==
    /\ (IsDownload /\ ~LengthsMatch /\ pc # "dl_begin") =>
          /\ Finished
          /\ outcome = "ValueError"
    /\ outcome = "ValueError" =>
          /\ calls = <<>>
          /\ sessions = 0
          /\ DeviceAsBefore

C1_Witness ==
    /\ Finished
    /\ args.op = "_download"
    /\ args.mode = "voltage"
    /\ Len(args.chans) = 2
    /\ Len(args.a) < Len(args.d)
    /\ outcome = "ValueError"
    /\ \E c \in Channels : staged[c] # NoWaveform

\* C2 as stated: every equal-length download succeeds with exactly one
\* mode-set and one transfer for each named channel and no mode-set or
\* transfer that reaches a channel outside the list, the empty list and any
\* mode value included (runs in which the device fails a call set aside).
C2_OneModeSetOneTransferPerNamedChannel ==
    (Finished /\ IsDownload /\ LengthsMatch /\ outcome # "DeviceError") =>
       /\ outcome = "returned"
       /\ \A c \in Named :
             /\ Cardinality(ModeSetsOn(c)) = 1
             /\ Cardinality(TransfersOn(c)) = 1
       /\ \A i \in ModeSets \cup Transfers : calls[i].chan \in Named

\* C2 amended: an equal-length download whose device calls all succeed
\* returns; with a non-empty list and mode current or voltage it issues one
\* mode-set and one transfer per entry of the list (a channel listed k
\* times gets k of each) and none for any other channel; with the empty
\* list it issues the single mode-set for all channels and no transfer;
\* with any other mode value it issues no device call.
C2_OneModeSetOneTransferPerListEntry ==
    (Finished /\ IsDownload /\ LengthsMatch /\ outcome # "DeviceError") =>
       /\ outcome = "returned"
       /\ IF args.mode \notin {"current", "voltage"}
          THEN calls = <<>>
          ELSE IF args.chans = <<>>
          THEN /\ Len(calls) = 1
               /\ calls[1].call = ModeSetName(args.mode)
               /\ calls[1].chan = -1
          ELSE /\ \A c \in Channels :
                     /\ Cardinality(ModeSetsOn(c)) = Occurrences(args.chans, c)
                     /\ Cardinality(TransfersOn(c)) = Occurrences(args.chans, c)
               /\ \A i \in 1 .. Len(calls) : calls[i].chan \in Named
               /\ Len(calls) = 2 * Len(args.chans)

C2_Witness ==
    /\ Finished
    /\ args.op = "_download"
    /\ args.chans = <<1, 1>>
    /\ args.mode = "voltage"
    /\ args.a # <<>>
    /\ LengthsMatch
    /\ outcome = "returned"

\* C3: start_stimulation without explicit triggers issues exactly one start
\* call, and its bitmask has the bits 0..N-1 set for the N channels the
\* device reports.
C3_StartWithoutTriggersStartsAll ==
    (Finished /\ args.op = "start_stimulation" /\ args.triggers = <<>>
       /\ outcome = "returned") =>
       /\ Cardinality(CallsOf({"SendStart"})) = 1
       /\ \A i \in CallsOf({"SendStart"}) : calls[i].mask = Pow2(count) - 1

\* C4: stop_stimulation that returns has issued exactly one stop call; with
\* a non-empty trigger list bit i of the mask is set iff i is in the list;
\* without triggers the bits 0..N-1 are set, N being the channel count read
\* from the device by this very call before the stop is sent.
C4_StopMask ==
    (Finished /\ args.op = "stop_stimulation" /\ outcome = "returned") =>
       /\ Cardinality(CallsOf({"SendStop"})) = 1
       /\ \A s \in CallsOf({"SendStop"}) :
             IF args.triggers # <<>>
             THEN /\ \A i \in 0 .. (MaxChannels + 1) :
                        Bit(calls[s].mask, i) <=> i \in Elems(args.triggers)
                  /\ CallsOf({"GetNumberOfAnalogChannels"}) = {}
             ELSE /\ \A i \in 0 .. (MaxChannels + 1) :
                        Bit(calls[s].mask, i) <=> i < count
                  /\ \E g \in CallsOf({"GetNumberOfAnalogChannels"}) : g < s

C4_Witness ==
    /\ Finished
    /\ args.op = "stop_stimulation"
    /\ args.triggers = <<>>
    /\ outcome = "returned"
    /\ count = 2
    /\ \E s \in CallsOf({"SendStop"}) : calls[s].mask = 3

\* C5: once __init__ has completed the trigger map is diagonal, in every
\* state of every later operation; SetupTrigger is issued by __init__ and
\* diagonalize_triggermap alone, and every other operation leaves the
\* trigger map as it found it.
IsDiagonal(m) ==
    /\ Len(m.channelmap) = count
    /\ Len(m.syncoutmap) = count
    /\ Len(m.repeat) = count
    /\ \A i \in 0 .. (count - 1) :
          /\ m.channelmap[i + 1] = Pow2(i)
          /\ m.syncoutmap[i + 1] = Pow2(i)
          /\ m.repeat[i + 1] = 1

C5_TriggerMapDiagonal ==
    /\ constructed => IsDiagonal(trigMap)
    /\ args.op \notin {"__init__", "diagonalize_triggermap"} =>
          /\ CallsOf({"SetupTrigger"}) = {}
          /\ trigMap = pre.trig

C5_Witness ==
    /\ Finished
    /\ args.op = "__init__"
    /\ constructed
    /\ ~IsDiagonal(pre.trig)
    /\ count = MaxChannels

\* C6: a download (mode current or voltage) that returns leaves on every
\* named channel exactly the data it sent, whatever was staged there
\* before, and on every other channel the waveform staged when the
\* download began.
C6_DownloadReplaces ==
    (Finished /\ IsDownload /\ outcome = "returned"
       /\ args.mode \in {"current", "voltage"}) =>
       \A c \in Channels :
          staged[c] = IF c \in Named THEN DeviceData ELSE pre.staged[c]

C6_Witness ==
    /\ Finished
    /\ args.op = "download"
    /\ outcome = "returned"
    /\ \E c \in Named :
          /\ pre.staged[c] # NoWaveform
          /\ staged[c] # NoWaveform
          /\ staged[c] # pre.staged[c]
    /\ \E c \in Channels \ Named : staged[c] # NoWaveform

\* C7: download hands the device round(mA * 1,000,000) for every amplitude
\* and round(ms * 1000) for every duration, also for values that are no
\* whole multiple of the device unit.
C7_DownloadRounds ==
    (Finished /\ args.op = "download" /\ outcome = "returned") =>
       \A i \in Transfers :
          calls[i].payload =
             << [k \in 1 .. Len(args.a) |-> round(args.a[k], AmpDen \div AmpScale)],
                [k \in 1 .. Len(args.d) |-> round(args.d[k], DurDen \div DurScale)] >>

C7_Witness ==
    /\ Finished
    /\ args.op = "download"
    /\ outcome = "returned"
    /\ args.a = <<10000000, -5000000, 0>>
    /\ \E i \in Transfers :
          calls[i].payload = << <<1000000, -500000, 0>>, <<100, 100, 488>> >>

\* C8: in every state of a download all mode-sets precede all transfers;
\* once a transfer is issued every entry of the list has had its
\* successful mode-set, of the kind the download's mode asks for; the k-th
\* transfer goes to the k-th channel of the list and carries the tag of
\* that mode; and a transfer that succeeds finds its channel in the mode
\* its tag names.
C8_ModeSetsPrecedeTransfers ==
    IsDownload =>
       /\ \A i \in ModeSets, j \in Transfers : i < j
       /\ Transfers # {} =>
             /\ Cardinality(ModeSets) = Len(args.chans)
             /\ \A k \in 1 .. Len(args.chans) :
                   /\ calls[k].call = ModeSetName(args.mode)
                   /\ calls[k].chan = args.chans[k]
                   /\ calls[k].ok
       /\ \A j \in Transfers :
             LET k == j - Cardinality(ModeSets) IN
             /\ k \in 1 .. Len(args.chans)
             /\ calls[j].chan = args.chans[k]
             /\ TagMode(calls[j].tag) = args.mode
             /\ \E i \in ModeSetsOn(calls[j].chan) :
                   /\ i < j
                   /\ calls[i].call = ModeSetName(TagMode(calls[j].tag))
       /\ (calls # <<>> /\ Len(calls) \in Transfers) =>
             chanMode[calls[Len(calls)].chan] = TagMode(calls[Len(calls)].tag)

C8_Witness ==
    /\ Finished
    /\ args.op = "_download"
    /\ args.chans = <<1, 0>>
    /\ args.mode = "voltage"
    /\ outcome = "returned"
    /\ pre.mode[0] = "current"
    /\ Cardinality(Transfers) = 2

\* C9: at most one session is open in any state; every device call is
\* issued with exactly one session open; and when a public operation has
\* returned or raised, and while the controller is idle, none is open.
C9_SessionsScoped ==
    /\ sessions \in {0, 1}
    /\ \A i \in 1 .. Len(calls) : calls[i].depth = 1
    /\ pc \in {"idle", "done"} => sessions = 0

C9_Witness ==
    /\ Finished
    /\ IsDownload
    /\ outcome = "DeviceError"
    /\ Transfers # {}
    /\ sessions = 0

\* C10 as stated: a download in which a device call fails leaves every
\* channel's mode and staged waveform as they were before it started.
C10_FailedDownloadChangesNothing ==
    (Finished /\ IsDownload /\ outcome = "DeviceError") =>
       /\ chanMode = pre.mode
       /\ staged = pre.staged

\* C10 amended: when a device call fails during a download the error
\* reaches the caller and the failed call is the last one issued (nothing
\* is retried, nothing undone): a channel's mode or staged waveform differs
\* from what it was before the download only by the calls that had already
\* succeeded, and the trigger map is untouched.
C10_FailedDownloadKeepsCompletedCalls ==
    (Finished /\ IsDownload /\ outcome = "DeviceError") =>
       /\ calls # <<>>
       /\ \A i \in 1 .. Len(calls) : calls[i].ok <=> i < Len(calls)
       /\ trigMap = pre.trig
       /\ \A c \in Channels :
             /\ chanMode[c] =
                   IF \E i \in ModeSets : calls[i].ok /\ calls[i].chan \in {c, -1}
                   THEN args.mode ELSE pre.mode[c]
             /\ staged[c] =
                   IF \E i \in TransfersOn(c) : calls[i].ok
                   THEN DeviceData ELSE pre.staged[c]

C10_Witness ==
    /\ Finished
    /\ IsDownload
    /\ outcome = "DeviceError"
    /\ Len(args.chans) = 2
    /\ staged # pre.staged
    /\ chanMode # pre.mode

====
